---------------------------- MODULE Spec2Model ----------------------------
(***************************************************************************)
(* Geospatial resolution subsystem of the Windborne agent backend:         *)
(*   - CountryDetector (country_detector.py): cached reverse geocoding     *)
(*     over an ordered chain of remote providers;                          *)
(*   - the ray-casting membership test and the Pure / Simple / Shapely     *)
(*     country finders (geospatial_pure.py, geospatial_simple.py,          *)
(*     geospatial.py) and the fallback shim (geospatial_fallback.py).      *)
(*                                                                         *)
(* Coordinates handed to the detector are counted in thousandths of a      *)
(* degree; ring vertices and query points of the finders are counted in    *)
(* half units, so that every quantity is an integer.                       *)
(***************************************************************************)
EXTENDS Integers, Sequences, FiniteSets, TLC

VARIABLES
    cache,      \* CountryDetector.cache: the in-memory dict key -> country
    disk,       \* the file data/country_cache.json
    call,       \* one record per get_country invocation (a coroutine)
    ring,       \* argument polygon_coords of the membership test
    pt,         \* argument (point_x, point_y) of the membership test
    inside,     \* results of the membership tests on (ring, pt)
    boundary,   \* the file data/items.json
    shapelyFinder, pureFinder, simpleFinder,   \* the lazily built singletons
    imports,    \* SHAPELY_AVAILABLE / PURE_AVAILABLE of the fallback shim
    query,      \* the (lat, lon) the finder entry points are called with
    res,        \* the outcome of each finder entry point, once called
    now,        \* time.time(), in seconds since the process started
    balloonsCache,  \* the file data/balloons_cache.json
    fetches,    \* number of fetch_balloons calls made
    fetched     \* what the last fetch_balloons call returned

detVars == <<cache, disk, call>>
ringVars == <<ring, pt, inside>>
geoVars == <<boundary, shapelyFinder, pureFinder, simpleFinder, imports, query, res>>
telVars == <<now, balloonsCache, fetches, fetched>>
vars == <<cache, disk, call, ring, pt, inside, boundary, shapelyFinder,
          pureFinder, simpleFinder, imports, query, res,
          now, balloonsCache, fetches, fetched>>

Abs(n) == IF n < 0 THEN -n ELSE n
Min(a, b) == IF a < b THEN a ELSE b
Max(a, b) == IF a > b THEN a ELSE b

(***************************************************************************)
(*                            CountryDetector                              *)
(***************************************************************************)

\* number of get_country invocations in one behaviour
MaxCalls == 2
CallIds == 1..MaxCalls
\* the (lat, lon) handed to get_country, in thousandths of a degree:
\* latitudes on both sides of the rounding boundary 0.005 and of zero
Lats == {-4, 4, 5, 6}
Lons == {2500}

UNKNOWN == "Unknown"
\* the api function raised (timeout, connection error, malformed body)
RAISED == "<raised>"
NONE == "<none>"

\* what the HTTP exchange with one provider can come to
HttpOutcomes == {"timeout", "malformed", "status500", "nofield", "emptyfield", "France"}

\* thousandths a with a % 10 = 5 whose double lies above the decimal tie, so
\* that round(a / 1000, 2) goes up (the others lie below it and go down)
TiesUp == {5, 25, 35, 55, 65, 85, 95}

\* round(x, 2) followed by the float's str(): the hundredths and the sign,
\* which str() prints for a negative zero as well ("-0.0")
Round2(m) ==
    LET a == Abs(m)
        up == (a % 10 > 5) \/ (a % 10 = 5 /\ a \in TiesUp)
    IN  [neg |-> m < 0, hund |-> (a \div 10) + (IF up THEN 1 ELSE 0)]

\* _get_cache_key: f"{round(lat, 2)},{round(lon, 2)}"
GetCacheKeyMut(la, lo) == <<[neg |-> la < 0, hund |-> Abs(la)], Round2(lo)>>
GetCacheKey(la, lo) == <<Round2(la), Round2(lo)>>

EmptyDict == << >>
\* d[k] = v
DictKeepMut(d, k, v) == IF k \in DOMAIN d THEN d ELSE [x \in (DOMAIN d) \cup {k} |-> IF x = k THEN v ELSE d[x]]
DictPutMut(d, k, v) == [x \in {k} |-> v]
DictPut(d, k, v) == [x \in (DOMAIN d) \cup {k} |-> IF x = k THEN v ELSE d[x]]

\* _load_cache: the parsed file when it exists and parses, else {}
LoadCacheMut(file) == file.data
LoadCache(file) == IF file.st = "ok" THEN file.data ELSE EmptyDict

\* _save_cache: every exception is swallowed; a write that fails after
\* open(..., 'w') has truncated the file leaves it unparseable
SaveCache(file, dict, how) ==
    IF how = "ok" THEN [st |-> "ok", data |-> dict]
                  ELSE [st |-> "corrupt", data |-> EmptyDict]
SaveOutcomes == {"ok", "partial"}

\* the provider list of _fetch_country_from_api, in order of preference
Apis == <<"nominatim", "bigdatacloud", "geocode.xyz">>

\* _try_nominatim_api / _try_bigdatacloud_api / _try_geocode_xyz_api: the
\* value returned (or RAISED) for an outcome of the HTTP exchange
TryApi(http) ==
    CASE http = "timeout" -> RAISED
      [] http = "malformed" -> RAISED
      [] http = "status500" -> UNKNOWN
      [] http = "nofield" -> UNKNOWN
      [] http = "emptyfield" -> ""
      [] OTHER -> http

\* line 71: if country and country != "Unknown"
IsValid(r) == r # RAISED /\ r # "" /\ r # UNKNOWN

\* the for loop goes on to the next api function
LoopAbortsMut(i, r) == r # RAISED /\ ~IsValid(r) /\ i < Len(Apis)
LoopContinuesMut(i, r) == i < Len(Apis)
LoopContinues(i, r) == ~IsValid(r) /\ i < Len(Apis)

\* the value _fetch_country_from_api returns once the loop is left
FetchResultMut(r) == IF r # RAISED THEN r ELSE UNKNOWN
FetchResult(r) == IF IsValid(r) THEN r ELSE UNKNOWN

IdleCall ==
    [pc |-> "idle", lat |-> 0, lon |-> 0, idx |-> 0, tried |-> << >>,
     lastOut |-> NONE, prevValid |-> FALSE, hit |-> FALSE, ret |-> NONE,
     stages |-> << >>, before |-> {}]

\* the cache file when the detector is constructed: absent, not readable,
\* cut short in the middle of an entry, or holding one entry
InitialDisks ==
    { [st |-> "missing", data |-> EmptyDict],
      [st |-> "unreadable", data |-> DictPut(EmptyDict, GetCacheKey(4, 2500), "Chad")],
      [st |-> "corrupt", data |-> DictPut(EmptyDict, GetCacheKey(4, 2500), "Ch")],
      [st |-> "ok", data |-> DictPut(EmptyDict, GetCacheKey(4, 2500), "Chad")] }

InitDetector ==
    /\ disk \in InitialDisks
    /\ cache = LoadCache(disk)
    /\ call = [c \in CallIds |-> IdleCall]

IdleDetector ==
    /\ disk = [st |-> "missing", data |-> EmptyDict]
    /\ cache = EmptyDict
    /\ call = [c \in CallIds |-> IdleCall]

Returned == {c \in CallIds : call[c].pc = "done"}

\* line 47: if cache_key in self.cache
CacheHitMut(key) == FALSE
CacheHit(key) == key \in DOMAIN cache

\* the write-back of get_country (lines 54-55) with the outcome of the save
PersistOwnEntryMut(key, country, how) ==
    /\ cache' = DictPut(cache, key, country)
    /\ disk' = SaveCache(disk, DictPut(EmptyDict, key, country), how)
PersistMut(key, country, how) ==
    IF country = UNKNOWN
      THEN UNCHANGED <<cache, disk>>
      ELSE /\ cache' = DictPut(cache, key, country)
           /\ disk' = SaveCache(disk, cache', how)
Persist(key, country, how) ==
    /\ cache' = DictPut(cache, key, country)
    /\ disk' = SaveCache(disk, cache', how)

\* get_country up to its first suspension: the cache check, and on a miss the
\* request to the first provider
GetCountrySingleFlightMut(c, la, lo) ==
    /\ call[c].pc = "idle"
    /\ \A d \in CallIds : d < c => call[d].pc # "idle"
    /\ \A d \in CallIds :
          call[d].pc = "await" => GetCacheKey(call[d].lat, call[d].lon) # GetCacheKey(la, lo)
    /\ LET key == GetCacheKey(la, lo)
           base == [call[c] EXCEPT !.lat = la, !.lon = lo, !.before = Returned]
       IN  IF CacheHit(key)
             THEN call' = [call EXCEPT ![c] =
                              [base EXCEPT !.pc = "done", !.hit = TRUE,
                                           !.ret = cache[key],
                                           !.stages = <<"CacheCheck">>]]
             ELSE call' = [call EXCEPT ![c] =
                              [base EXCEPT !.pc = "await", !.idx = 1,
                                           !.tried = <<Apis[1]>>,
                                           !.stages = <<"CacheCheck", "RemoteResolve">>]]
    /\ UNCHANGED <<cache, disk>>
GetCountryMut(c, la, lo) ==
    /\ call[c].pc = "idle"
    /\ \A d \in CallIds : d < c => call[d].pc # "idle"
    /\ LET key == GetCacheKey(la, lo)
           base == [call[c] EXCEPT !.lat = la, !.lon = lo, !.before = Returned]
       IN  IF CacheHit(key)
             THEN /\ call' = [call EXCEPT ![c] =
                                 [base EXCEPT !.pc = "done", !.hit = TRUE,
                                              !.ret = cache[key],
                                              !.stages = <<"CacheCheck">>]]
                  /\ cache' = cache
                  /\ disk' = SaveCache(disk, cache, "ok")
             ELSE /\ call' = [call EXCEPT ![c] =
                                 [base EXCEPT !.pc = "await", !.idx = 1,
                                              !.tried = <<Apis[1]>>,
                                              !.stages = <<"CacheCheck", "RemoteResolve">>]]
                  /\ UNCHANGED <<cache, disk>>
GetCountry(c, la, lo) ==
    /\ call[c].pc = "idle"
    /\ \A d \in CallIds : d < c => call[d].pc # "idle"
    /\ LET key == GetCacheKey(la, lo)
           base == [call[c] EXCEPT !.lat = la, !.lon = lo, !.before = Returned]
       IN  IF CacheHit(key)
             THEN call' = [call EXCEPT ![c] =
                              [base EXCEPT !.pc = "done", !.hit = TRUE,
                                           !.ret = cache[key],
                                           !.stages = <<"CacheCheck">>]]
             ELSE call' = [call EXCEPT ![c] =
                              [base EXCEPT !.pc = "await", !.idx = 1,
                                           !.tried = <<Apis[1]>>,
                                           !.stages = <<"CacheCheck", "RemoteResolve">>]]
    /\ UNCHANGED <<cache, disk>>

\* the awaited provider answers: the loop of _fetch_country_from_api moves on
\* to the next provider, or is left and get_country caches, saves and returns.
\* lastOut is the answer that ended the loop; prevValid records that the loop
\* went on after a valid answer.
ProviderRespondsHangMut(c, http) ==
    /\ call[c].pc = "await"
    /\ call[c].idx < Len(Apis)
    /\ LET r == TryApi(http)
           i == call[c].idx
       IN  /\ call' = [call EXCEPT ![c] =
                          [@ EXCEPT !.idx = i + 1,
                                    !.tried = Append(@, Apis[i + 1]),
                                    !.prevValid = @ \/ IsValid(r)]]
           /\ UNCHANGED <<cache, disk>>
ProviderResponds(c, http) ==
    /\ call[c].pc = "await"
    /\ LET r == TryApi(http)
           i == call[c].idx
       IN  IF LoopContinues(i, r)
             THEN /\ call' = [call EXCEPT ![c] =
                                 [@ EXCEPT !.idx = i + 1,
                                           !.tried = Append(@, Apis[i + 1]),
                                           !.prevValid = @ \/ IsValid(r)]]
                  /\ UNCHANGED <<cache, disk>>
             ELSE LET country == FetchResult(r)
                  IN  /\ \E how \in SaveOutcomes :
                             Persist(GetCacheKey(call[c].lat, call[c].lon), country, how)
                      /\ call' = [call EXCEPT ![c] =
                                     [@ EXCEPT !.pc = "done", !.ret = country,
                                               !.lastOut = r,
                                               !.stages = Append(@, "Persisted")]]

\* the task running get_country is cancelled while it waits at line 70 (by
\* task.cancel() or an enclosing asyncio.wait_for deadline): CancelledError is
\* a BaseException, so `except Exception` at line 73 does not catch it and it
\* leaves _fetch_country_from_api and get_country (line 51) before the
\* write-back of lines 54-55. (On interpreters where CancelledError is an
\* Exception the step is ProviderResponds with a provider that raised.)
Cancel(c) ==
    /\ call[c].pc = "await"
    /\ call' = [call EXCEPT ![c] = [@ EXCEPT !.pc = "cancelled", !.ret = RAISED]]
    /\ UNCHANGED <<cache, disk>>

NextDetector ==
    \/ \E c \in CallIds, la \in Lats, lo \in Lons :
          GetCountry(c, la, lo) /\ UNCHANGED <<ringVars, geoVars, telVars>>
    \/ \E c \in CallIds, http \in HttpOutcomes :
          ProviderResponds(c, http) /\ UNCHANGED <<ringVars, geoVars, telVars>>

(***************************************************************************)
(*                     Membership engine (ray casting)                     *)
(***************************************************************************)

\* ring vertices lie on the even points 0, 2, ..., 2 * GridMax of both axes;
\* query points on every integer point from -1 to 2 * GridMax + 1
GridMax == 2

\* xinters before its first assignment
Unassigned == [set |-> FALSE, num |-> 0, den |-> 1]

\* x <= xinters for xinters = num / den
LeqXinters(x, xi) ==
    IF xi.den > 0 THEN x * xi.den <= xi.num ELSE x * xi.den >= xi.num

\* xinters = (y - p1y) * (p2x - p1x) / (p2y - p1y) + p1x
Xinters(y, p1, p2) ==
    [set |-> TRUE,
     num |-> (y - p1[2]) * (p2[1] - p1[1]) + p1[1] * (p2[2] - p1[2]),
     den |-> p2[2] - p1[2]]

\* geospatial_pure.py lines 21-23: the three nested range tests of an edge
EdgeInRangeMut(x, y, p1, p2) ==
    /\ y >= Min(p1[2], p2[2])
    /\ y <= Max(p1[2], p2[2])
    /\ x <= Max(p1[1], p2[1])
EdgeInRange(x, y, p1, p2) ==
    /\ y > Min(p1[2], p2[2])
    /\ y <= Max(p1[2], p2[2])
    /\ x <= Max(p1[1], p2[1])

\* one pass of the for loop of point_in_polygon on the edge (st.p1, p2).
\* raised: xinters was read before any assignment (UnboundLocalError);
\* stale: the xinters read was left by an earlier edge.
EdgeStep(x, y, st, p2) ==
    LET p1 == st.p1 IN
    IF st.raised THEN st
    ELSE IF ~EdgeInRange(x, y, p1, p2) THEN [st EXCEPT !.p1 = p2]
    ELSE LET assign == p1[2] # p2[2]
             xi == IF assign THEN Xinters(y, p1, p2) ELSE st.xi
             reads == p1[1] # p2[1]
         IN  IF reads /\ ~xi.set
               THEN [st EXCEPT !.raised = TRUE]
               ELSE [p1 |-> p2,
                     inside |-> IF p1[1] = p2[1] \/ LeqXinters(x, xi)
                                  THEN ~st.inside ELSE st.inside,
                     xi |-> xi,
                     raised |-> FALSE,
                     stale |-> st.stale \/ (reads /\ ~assign)]

RECURSIVE EdgeLoop(_, _, _, _, _)
\* for i in range(1, n + 1): p2 = polygon_coords[i % n]
EdgeLoop(x, y, poly, i, st) ==
    IF i > Len(poly) THEN st
    ELSE EdgeLoop(x, y, poly, i + 1, EdgeStep(x, y, st, poly[(i % Len(poly)) + 1]))

\* point_in_polygon: raised is an exception (IndexError on an empty ring,
\* UnboundLocalError on an unassigned xinters), else inside is the result
PointInPolygon(point_x, point_y, polygon_coords) ==
    IF Len(polygon_coords) = 0
      THEN [raised |-> TRUE, inside |-> FALSE, stale |-> FALSE]
      ELSE LET st == EdgeLoop(point_x, point_y, polygon_coords, 1,
                         [p1 |-> polygon_coords[1], inside |-> FALSE,
                          xi |-> Unassigned, raised |-> FALSE, stale |-> FALSE])
           IN  [raised |-> st.raised, inside |-> ~st.raised /\ st.inside,
                stale |-> st.stale]

\* geospatial_simple.py lines 21-23
EdgeInRangeSimpleMut(x, y, p1, p2) ==
    /\ y >= Min(p1[2], p2[2])
    /\ y <= Max(p1[2], p2[2])
    /\ x <= Max(p1[1], p2[1])
EdgeInRangeSimple(x, y, p1, p2) ==
    /\ y > Min(p1[2], p2[2])
    /\ y <= Max(p1[2], p2[2])
    /\ x <= Max(p1[1], p2[1])

\* one pass of the for loop of point_in_polygon_simple
EdgeStepSimple(x, y, st, p2) ==
    LET p1 == st.p1 IN
    IF st.raised THEN st
    ELSE IF ~EdgeInRangeSimple(x, y, p1, p2) THEN [st EXCEPT !.p1 = p2]
    ELSE LET assign == p1[2] # p2[2]
             xi == IF assign THEN Xinters(y, p1, p2) ELSE st.xi
             reads == p1[1] # p2[1]
         IN  IF reads /\ ~xi.set
               THEN [st EXCEPT !.raised = TRUE]
               ELSE [p1 |-> p2,
                     inside |-> IF p1[1] = p2[1] \/ LeqXinters(x, xi)
                                  THEN ~st.inside ELSE st.inside,
                     xi |-> xi,
                     raised |-> FALSE,
                     stale |-> st.stale \/ (reads /\ ~assign)]

RECURSIVE EdgeLoopSimple(_, _, _, _, _)
EdgeLoopSimple(x, y, poly, i, st) ==
    IF i > Len(poly) THEN st
    ELSE EdgeLoopSimple(x, y, poly, i + 1,
                        EdgeStepSimple(x, y, st, poly[(i % Len(poly)) + 1]))

\* point_in_polygon_simple
PointInPolygonSimple(point_x, point_y, polygon_coords) ==
    IF Len(polygon_coords) = 0
      THEN [raised |-> TRUE, inside |-> FALSE, stale |-> FALSE]
      ELSE LET st == EdgeLoopSimple(point_x, point_y, polygon_coords, 1,
                         [p1 |-> polygon_coords[1], inside |-> FALSE,
                          xi |-> Unassigned, raised |-> FALSE, stale |-> FALSE])
           IN  [raised |-> st.raised, inside |-> ~st.raised /\ st.inside,
                stale |-> st.stale]

\* ---- inputs of the membership test: triangles and axis-aligned rectangles
GridVertices == {<<2 * i, 2 * j>> : i, j \in 0..GridMax}
GridPoints == {<<i, j>> : i, j \in (-1)..(2 * GridMax + 1)}

\* twice the signed area of the triangle a, b, c (positive: counterclockwise)
Cross(a, b, c) == (b[1] - a[1]) * (c[2] - a[2]) - (b[2] - a[2]) * (c[1] - a[1])

Triangles ==
    {<<a, b, c>> : a, b, c \in GridVertices} \ {t \in {<<a, b, c>> : a, b, c \in GridVertices} : Cross(t[1], t[2], t[3]) = 0}

Rotate(r, k) == [i \in 1..Len(r) |-> r[((i + k - 1) % Len(r)) + 1]]
Reverse(r) == [i \in 1..Len(r) |-> r[Len(r) + 1 - i]]

Rectangles ==
    UNION { LET r == <<<<x0, y0>>, <<x1, y0>>, <<x1, y1>>, <<x0, y1>>>>
            IN  {Rotate(r, k) : k \in 0..3} \cup {Rotate(Reverse(r), k) : k \in 0..3}
          : <<x0, x1, y0, y1>> \in
              {q \in {2 * i : i \in 0..GridMax} \X {2 * i : i \in 0..GridMax}
                     \X {2 * i : i \in 0..GridMax} \X {2 * i : i \in 0..GridMax} :
                  q[1] < q[2] /\ q[3] < q[4]} }

\* a GeoJSON ring repeats its first vertex at the end
Closed(r) == Append(r, r[1])
OpenRings == Triangles \cup Rectangles
Rings == OpenRings \cup {Closed(r) : r \in OpenRings}

\* ---- arbitrary vertex lists, as a boundary file may hold them: repeated
\* vertices, horizontal first edges, fewer than three vertices
MaxRingLen == 3
FreeVertices == {<<x, y>> : x, y \in {0, 2, 4}}
FreePoints == {<<x, y>> : x, y \in (-1)..5}
RECURSIVE VertexLists(_)
VertexLists(n) ==
    IF n = 1 THEN {<<v>> : v \in FreeVertices}
    ELSE LET shorter == VertexLists(n - 1)
         IN  shorter \cup {Append(r, v) : r \in {s \in shorter : Len(s) = n - 1},
                                          v \in FreeVertices}
FreeRings == VertexLists(MaxRingLen)

NoResult == [raised |-> FALSE, inside |-> FALSE, stale |-> FALSE]
NotTested == [tested |-> FALSE, pure |-> NoResult, simple |-> NoResult]

InitRing == ring \in Rings /\ pt \in GridPoints /\ inside = NotTested
InitFreeRing == ring \in FreeRings /\ pt \in FreePoints /\ inside = NotTested

\* both implementations of the membership test applied to (pt, ring)
TestMembership ==
    /\ ~inside.tested
    /\ inside' = [tested |-> TRUE,
                  pure |-> PointInPolygon(pt[1], pt[2], ring),
                  simple |-> PointInPolygonSimple(pt[1], pt[2], ring)]
    /\ UNCHANGED <<ring, pt>>

(***************************************************************************)
(*                  Boundary store and country finders                     *)
(***************************************************************************)

\* most features in a boundary file
MaxFeatures == 2

\* a property that the feature does not carry, and one that is JSON null
ABSENT == "<absent>"
NULL == "<null>"

\* Python truthiness of a property value returned by dict.get
Truthy(v) == v \notin {ABSENT, NULL, ""}
\* properties.get(k): None for a missing key
Get(v) == IF v = ABSENT THEN NULL ELSE v
\* properties.get(k, default)
GetOr(v, default) == IF v = ABSENT THEN default ELSE v

\* geospatial_pure.py line 62:
\* properties.get('NAME') or properties.get('ADMIN') or properties.get('name', 'Unknown')
CountryNamePure(props) ==
    IF Truthy(Get(props.NAME)) THEN props.NAME
    ELSE IF Truthy(Get(props.ADMIN)) THEN props.ADMIN
    ELSE GetOr(props.name, UNKNOWN)

\* geospatial_simple.py line 55
CountryNameSimple(props) ==
    IF Truthy(Get(props.NAME)) THEN props.NAME
    ELSE IF Truthy(Get(props.ADMIN)) THEN props.ADMIN
    ELSE GetOr(props.name, UNKNOWN)

\* geospatial.py line 29
CountryNameShapely(props) ==
    IF Truthy(Get(props.NAME)) THEN props.NAME
    ELSE IF Truthy(Get(props.ADMIN)) THEN props.ADMIN
    ELSE GetOr(props.name, UNKNOWN)

IsArea(f) == f.gtype \in {"Polygon", "MultiPolygon"}

LoadFailed == [raised |-> TRUE, countries |-> << >>]
Loaded(cs) == [raised |-> FALSE, countries |-> cs]

\* the entries PureCountryFinder._load_countries appends for the features
PureEntries(features) ==
    LET fs == SelectSeq(features, IsArea)
    IN  [i \in 1..Len(fs) |->
            [name |-> CountryNamePure(fs[i].props),
             type |-> IF fs[i].gtype = "Polygon" THEN "polygon" ELSE "multipolygon",
             coordinates |-> fs[i].coords]]

\* PureCountryFinder._load_countries: open() and json.load() are unguarded, and
\* so is data['features']
PureLoadCountries(file) ==
    IF file.st # "ok" THEN LoadFailed ELSE Loaded(PureEntries(file.features))

SimpleEntries(features) ==
    LET fs == SelectSeq(features, IsArea)
    IN  [i \in 1..Len(fs) |->
            [name |-> CountryNameSimple(fs[i].props),
             type |-> IF fs[i].gtype = "Polygon" THEN "polygon" ELSE "multipolygon",
             coordinates |-> fs[i].coords]]

\* SimpleCountryFinder._load_countries: only FileNotFoundError is caught
SimpleLoadCountriesMut(file) ==
    IF file.st # "ok" THEN LoadFailed ELSE Loaded(SimpleEntries(file.features))
SimpleLoadCountries(file) ==
    CASE file.st = "missing" -> Loaded(<< >>)
      [] file.st = "ok" -> Loaded(SimpleEntries(file.features))
      [] OTHER -> LoadFailed

\* the exterior rings CountryFinder._load_countries hands to Shapely:
\* coordinates[0] of a Polygon, poly_coords[0] of each part of a MultiPolygon
ShapelyEntries(features) ==
    LET fs == SelectSeq(features, IsArea)
    IN  [i \in 1..Len(fs) |->
            [name |-> CountryNameShapely(fs[i].props),
             exteriors |-> IF fs[i].gtype = "Polygon"
                             THEN <<fs[i].coords[1]>>
                             ELSE [k \in 1..Len(fs[i].coords) |-> fs[i].coords[k][1]]]]

\* CountryFinder._load_countries
ShapelyLoadCountries(file) ==
    IF file.st # "ok" THEN LoadFailed ELSE Loaded(ShapelyEntries(file.features))

Raise == [raised |-> TRUE, value |-> NONE]
Return(v) == [raised |-> FALSE, value |-> v]

RECURSIVE FirstRing(_, _, _, _)
\* for polygon_coords in rings: if point_in_polygon(x, y, polygon_coords): ...
\* "yes" at the first ring that contains the point, "raise" when a test raises
FirstRing(x, y, rings, i) ==
    IF i > Len(rings) THEN "no"
    ELSE LET r == PointInPolygon(x, y, rings[i])
         IN  IF r.raised THEN "raise"
             ELSE IF r.inside THEN "yes"
             ELSE FirstRing(x, y, rings, i + 1)

PointInFirstGroupMut(x, y, multi, g) ==
    IF Len(multi) = 0 THEN "no" ELSE FirstRing(x, y, multi[1], 1)
RECURSIVE PointInMultipolygonFrom(_, _, _, _)
PointInMultipolygonFrom(x, y, multi, g) ==
    IF g > Len(multi) THEN "no"
    ELSE LET r == FirstRing(x, y, multi[g], 1)
         IN  IF r = "no" THEN PointInMultipolygonFrom(x, y, multi, g + 1) ELSE r

\* point_in_multipolygon
PointInMultipolygon(point_x, point_y, multipolygon_coords) ==
    PointInMultipolygonFrom(point_x, point_y, multipolygon_coords, 1)

RECURSIVE PureFindFrom(_, _, _, _)
PureFindFrom(countries, lat, lon, i) ==
    IF i > Len(countries) THEN Return(UNKNOWN)
    ELSE LET country == countries[i]
             r == IF country.type = "polygon"
                    THEN FirstRing(lon, lat, country.coordinates, 1)
                    ELSE PointInMultipolygon(lon, lat, country.coordinates)
         IN  IF r = "raise" THEN Raise
             ELSE IF r = "yes" THEN Return(country.name)
             ELSE PureFindFrom(countries, lat, lon, i + 1)

\* PureCountryFinder.find_country
PureFindCountryMut(countries, lat, lon) ==
    PureFindFrom([i \in 1..Len(countries) |-> countries[Len(countries) + 1 - i]], lat, lon, 1)
PureFindCountry(countries, lat, lon) == PureFindFrom(countries, lat, lon, 1)

RECURSIVE FirstRingSimple(_, _, _, _)
FirstRingSimple(x, y, rings, i) ==
    IF i > Len(rings) THEN "no"
    ELSE LET r == PointInPolygonSimple(x, y, rings[i])
         IN  IF r.raised THEN "raise"
             ELSE IF r.inside THEN "yes"
             ELSE FirstRingSimple(x, y, rings, i + 1)

RECURSIVE FirstGroupSimple(_, _, _, _)
\* for polygon_group in country['coordinates']: for polygon_coords in polygon_group
FirstGroupSimple(x, y, groups, g) ==
    IF g > Len(groups) THEN "no"
    ELSE LET r == FirstRingSimple(x, y, groups[g], 1)
         IN  IF r = "no" THEN FirstGroupSimple(x, y, groups, g + 1) ELSE r

RECURSIVE SimpleFindFrom(_, _, _, _)
SimpleFindFrom(countries, lat, lon, i) ==
    IF i > Len(countries) THEN Return(UNKNOWN)
    ELSE LET country == countries[i]
             r == IF country.type = "polygon"
                    THEN FirstRingSimple(lon, lat, country.coordinates, 1)
                    ELSE FirstGroupSimple(lon, lat, country.coordinates, 1)
         IN  IF r = "raise" THEN Raise
             ELSE IF r = "yes" THEN Return(country.name)
             ELSE SimpleFindFrom(countries, lat, lon, i + 1)

\* SimpleCountryFinder.find_country
SimpleFindCountryMut(countries, lat, lon) == SimpleFindFrom(countries, lon, lat, 1)
SimpleFindCountry(countries, lat, lon) == SimpleFindFrom(countries, lat, lon, 1)

\* p lies on the closed segment a-b
OnSegment(a, b, p) ==
    /\ Cross(a, b, p) = 0
    /\ Min(a[1], b[1]) <= p[1] /\ p[1] <= Max(a[1], b[1])
    /\ Min(a[2], b[2]) <= p[2] /\ p[2] <= Max(a[2], b[2])
OnBoundary(r, p) == \E i \in 1..Len(r) : OnSegment(r[i], r[(i % Len(r)) + 1], p)
\* the edge a-b crosses the horizontal ray from p towards larger x
CrossesRay(a, b, p) ==
    /\ (a[2] > p[2]) # (b[2] > p[2])
    /\ IF b[2] > a[2] THEN Cross(a, b, p) > 0 ELSE Cross(a, b, p) < 0
\* shapely's prepared.contains(Point) for Polygon(ring): the point lies in the
\* interior of the polygon, a point of the boundary is not contained
ShapelyContainsRing(r, p) ==
    /\ ~OnBoundary(r, p)
    /\ Cardinality({i \in 1..Len(r) : CrossesRay(r[i], r[(i % Len(r)) + 1], p)}) % 2 = 1
ShapelyContains(exteriors, p) == \E k \in 1..Len(exteriors) : ShapelyContainsRing(exteriors[k], p)

RECURSIVE ShapelyFindFrom(_, _, _, _)
ShapelyFindFrom(countries, lat, lon, i) ==
    IF i > Len(countries) THEN Return(UNKNOWN)
    ELSE IF ShapelyContains(countries[i].exteriors, <<lon, lat>>)
           THEN Return(countries[i].name)
           ELSE ShapelyFindFrom(countries, lat, lon, i + 1)

\* CountryFinder.find_country
ShapelyFindCountry(countries, lat, lon) == ShapelyFindFrom(countries, lat, lon, 1)

\* ---- boundary files and query points (half units: x = 2 * lon, y = 2 * lat)
SqA == <<<<4, 96>>, <<6, 96>>, <<6, 98>>, <<4, 98>>>>
SqB == <<<<10, 96>>, <<10, 98>>, <<12, 98>>, <<12, 96>>, <<10, 96>>>>
SqC == <<<<16, 96>>, <<18, 96>>, <<18, 98>>, <<16, 98>>, <<16, 96>>>>
Big == <<<<2, 94>>, <<14, 94>>, <<14, 100>>, <<2, 100>>, <<2, 94>>>>

Props(N, A, n) == [NAME |-> N, ADMIN |-> A, name |-> n]
Feature(props, gtype, coords) == [props |-> props, gtype |-> gtype, coords |-> coords]

SmallFeatures ==
    { Feature(Props("Francia", ABSENT, ABSENT), "Polygon", <<SqA>>),
      Feature(Props("Disjoint", ABSENT, ABSENT), "Polygon", <<SqB>>),
      Feature(Props(ABSENT, "Disjoint", ABSENT), "Polygon", <<SqC>>),
      Feature(Props(ABSENT, ABSENT, "Big"), "Polygon", <<Big>>),
      Feature(Props("Multi", "Other", ABSENT), "MultiPolygon", <<<<SqA>>, <<SqC>>>>),
      Feature(Props("Station", ABSENT, ABSENT), "Point", << >>) }

PropValues(v) == {ABSENT, NULL, "", v}
NamedFeatures ==
    { Feature(Props(N, A, n), "Polygon", <<SqA>>) :
        N \in PropValues("N"), A \in PropValues("A"), n \in PropValues("n") }

RECURSIVE SeqsUpTo(_, _)
SeqsUpTo(S, n) ==
    IF n = 0 THEN {<< >>}
    ELSE LET shorter == SeqsUpTo(S, n - 1)
         IN  shorter \cup {Append(q, e) : q \in shorter, e \in S}

OkFile(features) == [st |-> "ok", features |-> features]
BoundaryFiles ==
    { [st |-> "missing", features |-> << >>],      \* no data/items.json
      [st |-> "malformed", features |-> << >>],    \* not JSON
      [st |-> "nofeatures", features |-> << >>] }  \* JSON without 'features'
    \cup {OkFile(fs) : fs \in SeqsUpTo(SmallFeatures, MaxFeatures)}
    \cup {OkFile(<<f>>) : f \in NamedFeatures}

\* (lat, lon): inside SqA, SqB, SqC, inside Big only, far away, and on the
\* right edge of SqA
QueryPoints == {<<97, 5>>, <<97, 11>>, <<97, 17>>, <<95, 8>>, <<20, 20>>, <<97, 6>>}

EntryPoints == {"pure", "simple", "shapely", "shim"}
NotLoaded == [loaded |-> FALSE, countries |-> << >>]
NotCalled == [called |-> FALSE, raised |-> FALSE, value |-> NONE]
Outcome(r) == [called |-> TRUE, raised |-> r.raised, value |-> r.value]

InitGeo ==
    /\ boundary \in BoundaryFiles
    /\ shapelyFinder = NotLoaded /\ pureFinder = NotLoaded /\ simpleFinder = NotLoaded
    /\ imports \in [shapely : BOOLEAN, pure : BOOLEAN]
    /\ query \in QueryPoints
    /\ res = [e \in EntryPoints |-> NotCalled]

\* get_*_country_finder: the singleton when it is set, else a load whose
\* exception leaves the singleton unset
BuildMut(finder, load) == load
Build(finder, load) ==
    IF finder.loaded THEN Loaded(finder.countries) ELSE load
Kept(finder, built) ==
    IF built.raised THEN finder ELSE [loaded |-> TRUE, countries |-> built.countries]

\* geospatial_pure.find_country_for_point_pure
PureCall ==
    LET built == Build(pureFinder, PureLoadCountries(boundary))
    IN  [finder |-> Kept(pureFinder, built),
         out |-> IF built.raised THEN Raise
                 ELSE PureFindCountry(built.countries, query[1], query[2])]

\* geospatial_simple.find_country_for_point_simple
SimpleCall ==
    LET built == Build(simpleFinder, SimpleLoadCountries(boundary))
    IN  [finder |-> Kept(simpleFinder, built),
         out |-> IF built.raised THEN Raise
                 ELSE SimpleFindCountry(built.countries, query[1], query[2])]

\* geospatial.find_country_for_point
ShapelyCall ==
    LET built == Build(shapelyFinder, ShapelyLoadCountries(boundary))
    IN  [finder |-> Kept(shapelyFinder, built),
         out |-> IF built.raised THEN Raise
                 ELSE ShapelyFindCountry(built.countries, query[1], query[2])]

FindCountryForPointPure ==
    /\ pureFinder' = PureCall.finder
    /\ res' = [res EXCEPT !["pure"] = Outcome(PureCall.out)]
    /\ UNCHANGED <<boundary, shapelyFinder, simpleFinder, imports, query>>

FindCountryForPointSimple ==
    /\ simpleFinder' = SimpleCall.finder
    /\ res' = [res EXCEPT !["simple"] = Outcome(SimpleCall.out)]
    /\ UNCHANGED <<boundary, shapelyFinder, pureFinder, imports, query>>

\* callable only where the shapely import of geospatial.py succeeds
FindCountryForPointShapely ==
    /\ imports.shapely
    /\ shapelyFinder' = ShapelyCall.finder
    /\ res' = [res EXCEPT !["shapely"] = Outcome(ShapelyCall.out)]
    /\ UNCHANGED <<boundary, pureFinder, simpleFinder, imports, query>>

\* geospatial_fallback.find_country_for_point
FindCountryForPoint ==
    /\ IF imports.shapely
         THEN /\ shapelyFinder' = ShapelyCall.finder
              /\ IF ~ShapelyCall.out.raised
                   THEN /\ res' = [res EXCEPT !["shim"] = Outcome(ShapelyCall.out)]
                        /\ UNCHANGED pureFinder
                   ELSE IF imports.pure
                     THEN /\ pureFinder' = PureCall.finder
                          /\ res' = [res EXCEPT !["shim"] = Outcome(PureCall.out)]
                     ELSE /\ res' = [res EXCEPT !["shim"] = Outcome(Return(UNKNOWN))]
                          /\ UNCHANGED pureFinder
         ELSE IF imports.pure
           THEN /\ pureFinder' = PureCall.finder
                /\ res' = [res EXCEPT !["shim"] = Outcome(PureCall.out)]
                /\ UNCHANGED shapelyFinder
           ELSE /\ res' = [res EXCEPT !["shim"] = Outcome(Return(UNKNOWN))]
                /\ UNCHANGED <<shapelyFinder, pureFinder>>
    /\ UNCHANGED <<boundary, simpleFinder, imports, query>>

\* the files data/items.json is replaced with while the process runs, and
\* the points asked for meanwhile
StoreFiles ==
    { [st |-> "missing", features |-> << >>],
      OkFile(<<Feature(Props("Francia", ABSENT, ABSENT), "Polygon", <<SqA>>)>>),
      OkFile(<<Feature(Props(ABSENT, ABSENT, "Big"), "Polygon", <<Big>>)>>) }
StoreQueries == {<<97, 5>>, <<20, 20>>}

\* data/items.json is written, replaced or removed by something other than
\* the finders, which only ever open it for reading
BoundaryReplaced ==
    /\ \E f \in StoreFiles : f # boundary /\ boundary' = f
    /\ UNCHANGED <<shapelyFinder, pureFinder, simpleFinder, imports, query, res>>

NextGeo ==
    \/ FindCountryForPointPure /\ UNCHANGED <<detVars, ringVars, telVars>>
    \/ FindCountryForPointSimple /\ UNCHANGED <<detVars, ringVars, telVars>>
    \/ FindCountryForPointShapely /\ UNCHANGED <<detVars, ringVars, telVars>>
    \/ FindCountryForPoint /\ UNCHANGED <<detVars, ringVars, telVars>>

(***************************************************************************)
(*                 Telemetry cache (tools.fetch_balloons)                  *)
(***************************************************************************)

\* CACHE_TTL = 30 * 60 seconds
CACHE_TTL == 1800
\* number of fetch_balloons calls in one behaviour
MaxFetches == 3
\* the hours_ago asked for, and the seconds between one call and the next
HoursAgo == {0, 1}
Waits == {600, 1500}
\* the treasure API answers 200 with a JSON body, or the request fails
\* (raise_for_status, timeout)
ApiOutcomes == {"ok", "error"}

NoCacheFile == [exists |-> FALSE, timestamp |-> 0, data |-> EmptyDict]
NotFetched ==
    [called |-> FALSE, hour |-> 0, raised |-> FALSE, fromCache |-> FALSE,
     fetchedAt |-> 0, at |-> 0]

\* lines 24-28: the file exists, its one timestamp is younger than CACHE_TTL
\* and it holds data for the hour
CacheFresh(file, t, h) ==
    /\ file.exists
    /\ t - file.timestamp < CACHE_TTL
    /\ h \in DOMAIN file.data

\* lines 39-50: the file is read again (or started empty), its timestamp set
\* to now and the hour's data replaced; the data of an hour is represented
\* by the time it was fetched from the API
UpdateCache(file, t, h) ==
    [exists |-> TRUE, timestamp |-> t,
     data |-> DictPut(IF file.exists THEN file.data ELSE EmptyDict, h, t)]

InitTel ==
    /\ now = 0 /\ balloonsCache = NoCacheFile
    /\ fetches = 0 /\ fetched = NotFetched
IdleTel ==
    /\ now = 0 /\ balloonsCache = NoCacheFile
    /\ fetches = 0 /\ fetched = NotFetched

\* fetch_balloons(h), called wait seconds after the previous call
FetchBalloons(h, wait, api) ==
    /\ fetches < MaxFetches
    /\ fetches' = fetches + 1
    /\ now' = now + wait
    /\ IF CacheFresh(balloonsCache, now', h)
         THEN /\ fetched' = [called |-> TRUE, hour |-> h, raised |-> FALSE,
                             fromCache |-> TRUE,
                             fetchedAt |-> balloonsCache.data[h], at |-> now']
              /\ UNCHANGED balloonsCache
         ELSE IF api = "ok"
           THEN /\ balloonsCache' = UpdateCache(balloonsCache, now', h)
                /\ fetched' = [called |-> TRUE, hour |-> h, raised |-> FALSE,
                               fromCache |-> FALSE, fetchedAt |-> now', at |-> now']
           ELSE /\ fetched' = [called |-> TRUE, hour |-> h, raised |-> TRUE,
                               fromCache |-> FALSE, fetchedAt |-> 0, at |-> now']
                /\ UNCHANGED balloonsCache

NextTel ==
    \E h \in HoursAgo, wait \in Waits, api \in ApiOutcomes :
        FetchBalloons(h, wait, api) /\ UNCHANGED <<detVars, ringVars, geoVars>>

IdleRing == ring = << >> /\ pt = <<0, 0>> /\ inside = NotTested
IdleGeo ==
    /\ boundary = [st |-> "missing", features |-> << >>]
    /\ shapelyFinder = NotLoaded /\ pureFinder = NotLoaded /\ simpleFinder = NotLoaded
    /\ imports = [shapely |-> FALSE, pure |-> FALSE]
    /\ query = <<0, 0>>
    /\ res = [e \in EntryPoints |-> NotCalled]

Init == InitDetector /\ IdleRing /\ IdleGeo /\ IdleTel
Next == NextDetector
Spec == Init /\ [][Next]_vars

\* every request is made through httpx.AsyncClient(timeout=10) (lines 81,
\* 100, 113): a provider that is waited for answers, fails or times out
ProviderAnswers(c) ==
    \E http \in HttpOutcomes : ProviderResponds(c, http) /\ UNCHANGED <<ringVars, geoVars, telVars>>
LiveInit == InitDetector /\ IdleRing /\ IdleGeo /\ IdleTel
LiveSpec == LiveInit /\ [][Next]_vars /\ \A c \in CallIds : WF_vars(ProviderAnswers(c))

\* the detector with calls that may be cancelled while they wait
NextCancel ==
    \/ NextDetector
    \/ \E c \in CallIds : Cancel(c) /\ UNCHANGED <<ringVars, geoVars, telVars>>
CancelInit == InitDetector /\ IdleRing /\ IdleGeo /\ IdleTel
CancelSpec == CancelInit /\ [][NextCancel]_vars

\* the finder entry points while the boundary file changes under them
InitStore ==
    /\ boundary \in StoreFiles
    /\ shapelyFinder = NotLoaded /\ pureFinder = NotLoaded /\ simpleFinder = NotLoaded
    /\ imports \in [shapely : BOOLEAN, pure : BOOLEAN]
    /\ query \in StoreQueries
    /\ res = [e \in EntryPoints |-> NotCalled]
NextStore ==
    \/ NextGeo
    \/ BoundaryReplaced /\ UNCHANGED <<detVars, ringVars, telVars>>
StoreInit == IdleDetector /\ IdleRing /\ InitStore /\ IdleTel
StoreSpec == StoreInit /\ [][NextStore]_vars

\* the telemetry cache under a sequence of fetch_balloons calls
TelInit == IdleDetector /\ IdleRing /\ IdleGeo /\ InitTel
TelSpec == TelInit /\ [][NextTel]_vars

\* the membership test as a pure function of its arguments
NextRing == TestMembership /\ UNCHANGED <<detVars, geoVars, telVars>>
RingInit == IdleDetector /\ InitRing /\ IdleGeo /\ IdleTel
RingSpec == RingInit /\ [][NextRing]_vars

\* the membership test over arbitrary non-empty vertex lists
FreeRingInit == IdleDetector /\ InitFreeRing /\ IdleGeo /\ IdleTel
FreeRingSpec == FreeRingInit /\ [][NextRing]_vars

\* the finder entry points over a boundary file and a query point
GeoInit == IdleDetector /\ IdleRing /\ InitGeo /\ IdleTel
GeoSpec == GeoInit /\ [][NextGeo]_vars

(***************************************************************************)
(*                 Properties of CountryDetector (Spec)                    *)
(***************************************************************************)

Started(c) == call[c].pc # "idle"
Done(c) == call[c].pc = "done"
Miss(c) == Done(c) /\ ~call[c].hit
KeyOf(c) == GetCacheKey(call[c].lat, call[c].lon)
\* c had returned before d was called
Precedes(c, d) == Started(d) /\ c \in call[d].before
\* c and d were in flight at the same time
Overlap(c, d) == c # d /\ Started(c) /\ Started(d) /\ ~Precedes(c, d) /\ ~Precedes(d, c)
\* no other call was in flight while c was
Alone(c) == \A d \in CallIds : ~Overlap(c, d)
IsPrefix(s, t) == Len(s) <= Len(t) /\ \A i \in 1..Len(s) : s[i] = t[i]
Before(s, a, b) == \E i, j \in 1..Len(s) : i < j /\ s[i] = a /\ s[j] = b
IsCountry(v) == v \notin {"", UNKNOWN, RAISED, NONE}
ProviderOrder == <<"nominatim", "bigdatacloud", "geocode.xyz">>

C3_Idempotent ==
    \A c1, c2 \in CallIds :
        ( /\ Precedes(c1, c2) /\ Alone(c1)
          /\ call[c1].lat = call[c2].lat /\ call[c1].lon = call[c2].lon )
        => /\ call[c2].tried = << >>
           /\ Done(c2) /\ call[c2].hit
           /\ call[c2].ret = call[c1].ret

C3_Witness ==
    \E c1, c2 \in CallIds :
        /\ Precedes(c1, c2) /\ Miss(c1) /\ call[c1].ret = UNKNOWN
        /\ call[c1].lat = call[c2].lat /\ call[c1].lon = call[c2].lon
        /\ Done(c2) /\ call[c2].hit /\ call[c2].ret = UNKNOWN

\* the decimal digits of a and b agree up to the hundredths (and the sign)
SameToHundredths(a, b) == (a < 0) = (b < 0) /\ Abs(a) \div 10 = Abs(b) \div 10
\* x, in thousandths, is rounded to h hundredths by round(x / 1000, 2)
RoundsTo(x, h) ==
    \/ 10 * h - 5 < x /\ x < 10 * h + 5
    \/ x = 10 * h - 5 /\ x \in TiesUp
    \/ x = 10 * h + 5 /\ x \notin TiesUp
\* a and b have the same sign and round to the same hundredth
SameCell(a, b) ==
    /\ (a < 0) = (b < 0)
    /\ \E h \in 0..(Abs(a) \div 10 + 1) : RoundsTo(Abs(a), h) /\ RoundsTo(Abs(b), h)

\* C4 as stated: two coordinates with the same digits up to the hundredths
\* have the same cache key, so the second of two sequential calls is answered
\* from the cache with the first's result.
C4_SameDigitsSameKey ==
    \A c1, c2 \in CallIds :
        ( /\ Precedes(c1, c2) /\ Alone(c1)
          /\ SameToHundredths(call[c1].lat, call[c2].lat)
          /\ SameToHundredths(call[c1].lon, call[c2].lon) )
        => /\ KeyOf(c1) = KeyOf(c2)
           /\ call[c2].tried = << >>
           /\ call[c2].ret = call[c1].ret

\* C4 amended: two coordinates that have the same sign and round to the same
\* hundredth have the same cache key, so the second of two sequential calls
\* is answered from the cache with the first's result and no remote call.
C4_SameCellSameKey ==
    \A c1, c2 \in CallIds :
        ( /\ Precedes(c1, c2) /\ Alone(c1)
          /\ SameCell(call[c1].lat, call[c2].lat)
          /\ SameCell(call[c1].lon, call[c2].lon) )
        => /\ KeyOf(c1) = KeyOf(c2)
           /\ call[c2].tried = << >>
           /\ Done(c2) /\ call[c2].hit
           /\ call[c2].ret = call[c1].ret

C4_Witness ==
    \E c1, c2 \in CallIds :
        /\ Precedes(c1, c2) /\ Miss(c1)
        /\ call[c1].lat # call[c2].lat
        /\ SameCell(call[c1].lat, call[c2].lat)
        /\ Done(c2) /\ call[c2].hit /\ call[c2].ret = call[c1].ret

\* C5: the providers are contacted in the order nominatim, bigdatacloud,
\* geocode.xyz; the loop never goes on after a provider answered a country,
\* and that country is what the call returns.
C5_FallbackOrder ==
    \A c \in CallIds :
        /\ IsPrefix(call[c].tried, ProviderOrder)
        /\ ~call[c].prevValid
        /\ Miss(c) /\ IsCountry(call[c].lastOut) => call[c].ret = call[c].lastOut

C5_Witness ==
    \E c \in CallIds :
        /\ Miss(c) /\ call[c].tried = <<"nominatim", "bigdatacloud">>
        /\ call[c].lastOut = "France" /\ call[c].ret = "France"

\* C6: a call whose providers were all contacted and none of which answered
\* a country (exception, non-200 status, absent, empty or "Unknown" field)
\* returns exactly "Unknown", and so does the finder over an empty boundary
\* store for the same coordinate.
C6_Exhaustion ==
    \A c \in CallIds :
        Miss(c) /\ ~IsCountry(call[c].lastOut) /\ ~call[c].prevValid
        => /\ call[c].ret = UNKNOWN /\ call[c].tried = ProviderOrder
           /\ SimpleFindCountry(<< >>, call[c].lat, call[c].lon) = Return(UNKNOWN)

C6_Witness ==
    \E c \in CallIds :
        Miss(c) /\ call[c].lastOut = "" /\ call[c].ret = UNKNOWN

\* C12: the step in which a get_country call that missed the cache returns
\* leaves the returned value, "Unknown" included, in the in-memory cache
\* under the call's rounded key.
C12_PersistedOnReturn ==
    [][\A c \in CallIds :
          call[c].pc = "await" /\ call'[c].pc = "done" =>
              /\ call'[c].ret # NONE
              /\ KeyOf(c) \in DOMAIN cache'
              /\ cache'[KeyOf(c)] = call'[c].ret]_vars

\* two calls in flight for one key, answered differently: each has returned
\* what it wrote, and the file write of the second failed
C12_Witness ==
    \E c, d \in CallIds :
        /\ Overlap(c, d) /\ Miss(c) /\ Miss(d) /\ KeyOf(c) = KeyOf(d)
        /\ call[c].ret = UNKNOWN /\ call[d].ret = "France"
        /\ cache[KeyOf(d)] \in {UNKNOWN, "France"}
        /\ disk.st = "corrupt"

\* C13: whenever a get_country call has written an entry and returned, and
\* no call is in flight, the cache file parses and holds exactly the in-memory
\* cache, also when a write to the file failed.
C13_DurableEqualsMemory ==
    ( /\ \E c \in CallIds : Miss(c)
      /\ \A c \in CallIds : call[c].pc # "await" )
    => disk.st = "ok" /\ disk.data = cache

C20_FailureIsolation ==
    \A c \in CallIds :
        /\ \A i, j \in 1..Len(call[c].tried) :
              call[c].tried[i] = call[c].tried[j] => i = j
        /\ call[c].pc = "await" => call[c].idx = Len(call[c].tried)
        /\ Miss(c) /\ Len(call[c].tried) < Len(Apis) => IsCountry(call[c].lastOut)
        /\ Miss(c) /\ ~IsCountry(call[c].lastOut) => Len(call[c].tried) = Len(Apis)

\* two providers failed, the third answered; and a call ended by an exception
\* of the last provider
C20_Witness ==
    \E c, d \in CallIds :
        /\ Miss(c) /\ Len(call[c].tried) = 3 /\ call[c].ret = "France"
        /\ Miss(d) /\ Len(call[d].tried) = 3 /\ call[d].lastOut = RAISED
        /\ call[d].ret = UNKNOWN

\* C21: get_country does not wait for, or join, a call in flight for the same
\* key: the next call can start for any coordinate whatever the other calls
\* are doing, and one that finds its key absent goes to the first provider
\* itself. So two overlapping calls for one uncached coordinate can both
\* miss and both go through the whole provider chain (the witness).
C21_NoSingleFlight ==
    /\ [](\A c \in CallIds :
            (call[c].pc = "idle" /\ \A d \in CallIds : d < c => call[d].pc # "idle")
            => \A la \in Lats, lo \in Lons : ENABLED GetCountry(c, la, lo))
    /\ [][\A c \in CallIds :
            ( /\ call[c].pc = "idle" /\ call'[c].pc # "idle"
              /\ GetCacheKey(call'[c].lat, call'[c].lon) \notin DOMAIN cache )
            => call'[c].pc = "await" /\ call'[c].tried = <<"nominatim">>]_vars

C21_Witness ==
    \E c, d \in CallIds :
        /\ Overlap(c, d) /\ Miss(c) /\ Miss(d)
        /\ call[c].lat = call[d].lat /\ call[c].lon = call[d].lon
        /\ call[c].tried = ProviderOrder /\ call[d].tried = ProviderOrder

\* C22: given that a provider that is waited for eventually answers, fails
\* or times out, every get_country call that went to the providers returns,
\* and it has then made at most one request to each provider.
C22_BoundedResponse ==
    /\ \A c \in CallIds : (call[c].pc = "await") ~> (call[c].pc = "done")
    /\ [](\A c \in CallIds :
            /\ Len(call[c].tried) <= Len(Apis)
            /\ Cardinality({call[c].tried[i] : i \in 1..Len(call[c].tried)})
                  = Len(call[c].tried))

\* a call that returned after all three providers timed out or failed
C22_Witness ==
    \E c \in CallIds :
        /\ Miss(c) /\ call[c].tried = ProviderOrder
        /\ call[c].lastOut = RAISED /\ call[c].ret = UNKNOWN
        /\ \A d \in CallIds : Done(d)

\* C29: no step changes the value the in-memory cache holds for a key that
\* is already present, whatever calls overlap and whatever the providers
\* answer.
C29_CachedCountryStable ==
    [][\A k \in DOMAIN cache : k \in DOMAIN cache' /\ cache'[k] = cache[k]]_vars

\* C17: a get_country call cancelled while it waits for a provider hands
\* "Unknown" to its caller, and the step that cancels it changes neither the
\* in-memory cache nor the cache file.
C17_CancelReturnsUnknown ==
    [][\A c \in CallIds :
          call[c].pc = "await" /\ call'[c].pc = "cancelled" =>
              /\ call'[c].ret = UNKNOWN
              /\ cache' = cache /\ disk' = disk]_vars

\* C14: the step in which a get_country call returns from the cache check
\* (the key is present) returns the stored country, contacts no provider and
\* changes neither the in-memory cache nor the cache file.
C14_HitHasNoEffect ==
    [][\A c \in CallIds :
          call[c].pc = "idle" /\ call'[c].pc = "done" =>
              /\ GetCacheKey(call'[c].lat, call'[c].lon) \in DOMAIN cache
              /\ call'[c].ret = cache[GetCacheKey(call'[c].lat, call'[c].lon)]
              /\ call'[c].tried = << >>
              /\ cache' = cache /\ disk' = disk]_vars

\* a hit while the file is unparseable after a failed write
C14_Witness ==
    \E c \in CallIds :
        /\ Done(c) /\ call[c].hit /\ call[c].ret = cache[KeyOf(c)]
        /\ disk.st = "corrupt" /\ cache # EmptyDict

\* C15: a detector constructed over a cache file that is missing, unreadable
\* or does not parse starts, without raising, with an empty in-memory cache
\* (and over a file that parses, with the file's entries).
C15_LoadFailureStartsEmpty ==
    (\A c \in CallIds : call[c] = IdleCall) =>
        /\ disk.st \in {"missing", "unreadable", "corrupt"} => cache = EmptyDict
        /\ disk.st = "ok" => cache = disk.data

\* the first call after a start over an unparseable file misses the cache
C15_Witness ==
    /\ disk.st = "corrupt" /\ disk.data # EmptyDict /\ cache = EmptyDict
    /\ call[1].pc = "await" /\ call[1].lat = 4
    /\ \A c \in CallIds : c # 1 => call[c] = IdleCall

\* C16: no step removes a key from the in-memory cache.
C16_NeverExpires ==
    [][\A k \in DOMAIN cache : k \in DOMAIN cache']_vars

\* the key loaded at startup is still there after two more were written
C16_Witness ==
    /\ GetCacheKey(4, 2500) \in DOMAIN cache
    /\ cache[GetCacheKey(4, 2500)] = "Chad"
    /\ Cardinality(DOMAIN cache) >= 3
    /\ \A c \in CallIds : Done(c)
(***************************************************************************)
(*              Properties of the membership test (RingSpec)               *)
(***************************************************************************)

\* the ring without a repeated closing vertex
Open(r) == IF Len(r) > 1 /\ r[1] = r[Len(r)] THEN SubSeq(r, 1, Len(r) - 1) ELSE r
\* +1 for a counterclockwise convex ring, -1 for a clockwise one
Orientation(r) == IF Cross(r[1], r[2], r[3]) > 0 THEN 1 ELSE -1
\* side of p relative to the i-th edge of the open ring r (positive: interior side)
Side(r, i, p) == Orientation(r) * Cross(r[i], r[(i % Len(r)) + 1], p)
\* for a convex ring: p is on the interior side of every edge
StrictlyInside(r, p) == \A i \in 1..Len(Open(r)) : Side(Open(r), i, p) > 0
\* for a convex ring: p is beyond the line of some edge
StrictlyOutside(r, p) == \E i \in 1..Len(Open(r)) : Side(Open(r), i, p) < 0

\* C8: on every triangle and axis-aligned rectangle of the grid, in either
\* orientation, from any starting vertex, closed or not, both ray-casting
\* implementations answer true for a point strictly inside and false for a
\* point strictly outside, without raising.
C8_RayCastingCorrect ==
    inside.tested =>
        \A r \in {inside.pure, inside.simple} :
            /\ StrictlyInside(ring, pt) => ~r.raised /\ r.inside
            /\ StrictlyOutside(ring, pt) => ~r.raised /\ ~r.inside

C8_Witness ==
    /\ inside.tested /\ inside.pure.inside /\ inside.simple.inside
    /\ StrictlyInside(ring, pt)
    /\ Len(ring) = 4 /\ ring[1] = ring[4] /\ Cross(ring[1], ring[2], ring[3]) < 0
    /\ ring[1][2] = ring[2][2]

\* the edges (p1, p2) the traversal of ring goes through, in order
EdgeAt(i) == <<ring[i], ring[(i % Len(ring)) + 1]>>
Horizontal(e) == e[1][2] = e[2][2]
HorizontalEdges == {i \in 1..Len(ring) : Horizontal(EdgeAt(i))}
\* the loop state in which the traversal can meet edge i
StateAt(i, in, xi) ==
    [p1 |-> EdgeAt(i)[1], inside |-> in, xi |-> xi, raised |-> FALSE, stale |-> FALSE]
SomeXinters == {Unassigned, [set |-> TRUE, num |-> 3, den |-> 2]}

\* C24 as stated: a traversal over a ring with a horizontal edge takes the
\* toggle decision of that edge with the xinters an earlier edge left, or
\* with an undefined one.
C24_HorizontalEdgeReusesXinters ==
    inside.tested /\ HorizontalEdges # {} =>
        /\ inside.pure.stale \/ inside.pure.raised
        /\ inside.simple.stale \/ inside.simple.raised

\* C24 amended: a horizontal edge never passes the range tests of lines
\* 21-22 (y > min(p1y, p2y) and y <= max(p1y, p2y) exclude each other when
\* p1y = p2y), so for it neither the xinters computation nor the toggle
\* decision is reached: the pass over a horizontal edge only moves p1 on,
\* whatever inside and xinters are, and the traversal as a whole has read no
\* xinters left by an earlier edge and no undefined one.
C24_HorizontalEdgeSkipped ==
    inside.tested =>
        /\ \A i \in HorizontalEdges :
              /\ ~EdgeInRange(pt[1], pt[2], EdgeAt(i)[1], EdgeAt(i)[2])
              /\ ~EdgeInRangeSimple(pt[1], pt[2], EdgeAt(i)[1], EdgeAt(i)[2])
              /\ \A in \in BOOLEAN, xi \in SomeXinters :
                    /\ EdgeStep(pt[1], pt[2], StateAt(i, in, xi), EdgeAt(i)[2])
                          = [StateAt(i, in, xi) EXCEPT !.p1 = EdgeAt(i)[2]]
                    /\ EdgeStepSimple(pt[1], pt[2], StateAt(i, in, xi), EdgeAt(i)[2])
                          = [StateAt(i, in, xi) EXCEPT !.p1 = EdgeAt(i)[2]]
        /\ HorizontalEdges # {} =>
              /\ ~inside.pure.stale /\ ~inside.pure.raised
              /\ ~inside.simple.stale /\ ~inside.simple.raised

\* the first edge is horizontal, not vertical, and the point lies on its line,
\* left of its right end; a later edge toggles
C24_Witness ==
    /\ inside.tested /\ Len(ring) = 3
    /\ 1 \in HorizontalEdges /\ ring[1][1] # ring[2][1]
    /\ pt[2] = ring[1][2] /\ pt[1] <= Max(ring[1][1], ring[2][1])
    /\ inside.pure.inside /\ inside.simple.inside

\* the edges that toggle, each judged by the xinters computed from itself
OwnToggles ==
    {i \in 1..Len(ring) :
        LET p1 == EdgeAt(i)[1]
            p2 == EdgeAt(i)[2]
        IN  /\ p1[2] # p2[2]
            /\ pt[2] > Min(p1[2], p2[2]) /\ pt[2] <= Max(p1[2], p2[2])
            /\ pt[1] <= Max(p1[1], p2[1])
            /\ p1[1] = p2[1] \/ LeqXinters(pt[1], Xinters(pt[2], p1, p2))}

\* C28: on every non-empty vertex list and every point, neither
\* implementation fails on an unassigned xinters or reads one left by an
\* earlier edge; the answer is the parity of the edges with p1y # p2y that
\* pass the tests with their own xinters, so no horizontal edge toggles.
C28_XintersFromCurrentEdge ==
    inside.tested =>
        \A r \in {inside.pure, inside.simple} :
            /\ ~r.raised /\ ~r.stale
            /\ r.inside = (Cardinality(OwnToggles) % 2 = 1)

\* the traversal starts on a horizontal edge and a later edge toggles
C28_Witness ==
    /\ inside.tested /\ Len(ring) >= 2
    /\ Horizontal(EdgeAt(1)) /\ ring[1] # ring[2]
    /\ Cardinality(OwnToggles) = 1
    /\ inside.pure.inside /\ inside.simple.inside /\ ~inside.pure.raised

(***************************************************************************)
(*               Properties of the country finders (GeoSpec)               *)
(***************************************************************************)

\* C1: every call of a public entry point (the shim, the pure and the simple
\* finder) returns a string and raises nothing, whatever the boundary file.
C1_NeverRaises ==
    \A e \in {"shim", "pure", "simple"} :
        res[e].called => ~res[e].raised /\ res[e].value # NONE

AreaFeatures == SelectSeq(boundary.features, IsArea)
\* every ring of a loaded region
RingsOf(country) ==
    IF country.type = "polygon"
      THEN {country.coordinates[i] : i \in 1..Len(country.coordinates)}
      ELSE UNION {{country.coordinates[g][i] : i \in 1..Len(country.coordinates[g])} :
                     g \in 1..Len(country.coordinates)}
\* the first index of s that satisfies the set of hits, 0 when there is none
FirstOf(hits) == IF hits = {} THEN 0 ELSE CHOOSE i \in hits : \A j \in hits : i <= j
NameAt(countries, i) == IF i = 0 THEN UNKNOWN ELSE countries[i].name

\* C7: find_country of the Pure and of the Shapely finder returns the name of
\* the first loaded region, in the order of the file, that contains the
\* point, and "Unknown" when none does; every Polygon or MultiPolygon feature
\* is a region of its own, also when names repeat. On the file with the one
\* ring [(2,48),(3,48),(3,49),(2,49)] named "Francia", (lat 48.5, lon 2.5)
\* gives "Francia" and (lat 10, lon 10) gives "Unknown".
C7_FirstMatchWins ==
    /\ res["pure"].called /\ ~res["pure"].raised =>
          LET cs == pureFinder.countries
              hits == {i \in 1..Len(cs) :
                          \E r \in RingsOf(cs[i]) : PointInPolygon(query[2], query[1], r).inside}
          IN  /\ Len(cs) = Len(AreaFeatures)
              /\ res["pure"].value = NameAt(cs, FirstOf(hits))
    /\ res["shapely"].called /\ ~res["shapely"].raised =>
          LET cs == shapelyFinder.countries
              hits == {i \in 1..Len(cs) :
                          ShapelyContains(cs[i].exteriors, <<query[2], query[1]>>)}
          IN  /\ Len(cs) = Len(AreaFeatures)
              /\ res["shapely"].value = NameAt(cs, FirstOf(hits))
    /\ \A e \in {"pure", "shapely"} :
          ( /\ res[e].called
            /\ boundary = OkFile(<<Feature(Props("Francia", ABSENT, ABSENT), "Polygon", <<SqA>>)>>) )
          => /\ query = <<97, 5>> => res[e].value = "Francia"
             /\ query = <<20, 20>> => res[e].value = UNKNOWN

\* two regions named "Disjoint", the point only in the second
C7_Witness ==
    /\ Len(boundary.features) = 2
    /\ boundary.features[1].props.NAME = "Disjoint"
    /\ boundary.features[2].props.ADMIN = "Disjoint"
    /\ query = <<97, 17>>
    /\ Len(pureFinder.countries) = 2
    /\ res["pure"].called /\ res["pure"].value = "Disjoint"
    /\ res["shapely"].called /\ res["shapely"].value = "Disjoint"

\* every ring of the boundary file
FileRings ==
    UNION { IF AreaFeatures[i].gtype = "Polygon"
              THEN {AreaFeatures[i].coords[k] : k \in 1..Len(AreaFeatures[i].coords)}
              ELSE UNION {{AreaFeatures[i].coords[g][k] : k \in 1..Len(AreaFeatures[i].coords[g])} :
                             g \in 1..Len(AreaFeatures[i].coords)}
          : i \in 1..Len(AreaFeatures) }
\* the query point lies on no ring of the file
OffBoundaries == \A r \in FileRings : ~OnBoundary(r, <<query[2], query[1]>>)

\* C9: on a boundary file that loads and a point on no ring of it, the Pure,
\* the Simple and the Shapely finder, whichever have been called, returned
\* the same country name.
C9_StrategiesAgree ==
    boundary.st = "ok" /\ OffBoundaries =>
        \A e1, e2 \in {"pure", "simple", "shapely"} :
            res[e1].called /\ res[e2].called =>
                /\ ~res[e1].raised /\ ~res[e2].raised
                /\ res[e1].value = res[e2].value

C9_Witness ==
    /\ boundary.st = "ok" /\ Len(AreaFeatures) = 2 /\ OffBoundaries
    /\ AreaFeatures[2].gtype = "MultiPolygon"
    /\ \A e \in {"pure", "simple", "shapely"} : res[e].called /\ res[e].value = "Multi"

NonEmpty(v) == v \notin {ABSENT, NULL, ""}
\* NAME, else ADMIN, else name, else "Unknown", empty and missing alike
ExpectedName(props) ==
    IF NonEmpty(props.NAME) THEN props.NAME
    ELSE IF NonEmpty(props.ADMIN) THEN props.ADMIN
    ELSE IF NonEmpty(props.name) THEN props.name
    ELSE UNKNOWN

\* C10: every loaded region is named by NAME, else ADMIN, else name, else
\* "Unknown", where an empty or missing attribute counts as not given: no
\* region has an empty or null name.
C10_NamePrecedence ==
    \A f \in {pureFinder, simpleFinder, shapelyFinder} :
        f.loaded =>
            \A i \in 1..Len(f.countries) :
                /\ f.countries[i].name = ExpectedName(AreaFeatures[i].props)
                /\ f.countries[i].name \notin {"", NULL}

\* C11: with the boundary file missing, the Simple finder is built with zero
\* regions and raises nothing; the call that built it and every later call,
\* for whatever point, returns "Unknown".
C11_MissingFileUnknown ==
    boundary.st = "missing" =>
        /\ res["simple"].called =>
              /\ ~res["simple"].raised /\ res["simple"].value = UNKNOWN
              /\ simpleFinder.loaded
        /\ simpleFinder.loaded =>
              /\ simpleFinder.countries = << >>
              /\ \A q \in QueryPoints :
                    SimpleFindCountry(simpleFinder.countries, q[1], q[2]) = Return(UNKNOWN)

C11_Witness ==
    /\ boundary.st = "missing" /\ simpleFinder.loaded
    /\ res["simple"].called /\ res["simple"].value = UNKNOWN
    /\ res["pure"].called /\ res["pure"].raised

\* C19: once a finder has been built, no step replaces or changes it: no
\* call of an entry point, however data/items.json has changed since, loads
\* again or adds, removes, reorders or modifies a region; and what an entry
\* point returned is what find_country gives over the regions the finder
\* holds.
C19_LoadedOnce ==
    [][/\ pureFinder.loaded => pureFinder' = pureFinder
       /\ simpleFinder.loaded => simpleFinder' = simpleFinder
       /\ shapelyFinder.loaded => shapelyFinder' = shapelyFinder
       /\ res'["pure"].called /\ ~res'["pure"].raised =>
             res'["pure"] = Outcome(PureFindCountry(pureFinder'.countries, query[1], query[2]))
       /\ res'["simple"].called /\ ~res'["simple"].raised =>
             res'["simple"] = Outcome(SimpleFindCountry(simpleFinder'.countries, query[1], query[2]))
       /\ res'["shapely"].called /\ ~res'["shapely"].raised =>
             res'["shapely"] = Outcome(ShapelyFindCountry(shapelyFinder'.countries, query[1], query[2]))]_vars

\* the file was replaced after the finders were built: they still hold the
\* regions of the file they loaded
C19_Witness ==
    /\ boundary = OkFile(<<Feature(Props(ABSENT, ABSENT, "Big"), "Polygon", <<Big>>)>>)
    /\ pureFinder.loaded /\ Len(pureFinder.countries) = 1
    /\ pureFinder.countries[1].name = "Francia"
    /\ shapelyFinder.loaded /\ shapelyFinder.countries[1].name = "Francia"
    /\ simpleFinder.loaded /\ simpleFinder.countries = << >>
    /\ query = <<97, 5>> /\ res["pure"].value = "Francia" /\ res["simple"].value = UNKNOWN

\* the MultiPolygon features of the boundary file
MultiFeatures == {f \in {boundary.features[i] : i \in 1..Len(boundary.features)} :
                     f.gtype = "MultiPolygon"}
\* some ring of ring-group g of f contains the query point
GroupHit(f, g) ==
    \E k \in 1..Len(f.coords[g]) : PointInPolygon(query[2], query[1], f.coords[g][k]).inside
GroupHitSimple(f, g) ==
    \E k \in 1..Len(f.coords[g]) :
        PointInPolygonSimple(query[2], query[1], f.coords[g][k]).inside

\* C23: for a MultiPolygon, point_in_multipolygon (Pure) and the group loop
\* of the Simple finder answer yes exactly when some ring-group contains the
\* point under the ray-casting test, whichever group it is; and over a file
\* whose only region is a MultiPolygon the finders return the region's name
\* in that case and "Unknown" otherwise.
C23_AnyGroupContains ==
    \A f \in MultiFeatures :
        LET any == \E g \in 1..Len(f.coords) : GroupHit(f, g)
            anySimple == \E g \in 1..Len(f.coords) : GroupHitSimple(f, g)
        IN  /\ PointInMultipolygon(query[2], query[1], f.coords) = IF any THEN "yes" ELSE "no"
            /\ FirstGroupSimple(query[2], query[1], f.coords, 1)
                  = IF anySimple THEN "yes" ELSE "no"
            /\ boundary.features = <<f>> /\ res["pure"].called =>
                  res["pure"] = Outcome(Return(IF any THEN CountryNamePure(f.props) ELSE UNKNOWN))
            /\ boundary.features = <<f>> /\ res["simple"].called =>
                  res["simple"] = Outcome(Return(IF anySimple THEN CountryNameSimple(f.props)
                                                              ELSE UNKNOWN))

\* the point lies in the second ring-group only
C23_Witness ==
    /\ Len(boundary.features) = 1 /\ boundary.features[1].gtype = "MultiPolygon"
    /\ ~GroupHit(boundary.features[1], 1) /\ GroupHit(boundary.features[1], 2)
    /\ res["pure"].called /\ res["pure"].value = "Multi"
    /\ res["simple"].called /\ res["simple"].value = "Multi"

\* what each strategy gives for the query over the boundary file
PreciseAnswer ==
    LET b == ShapelyLoadCountries(boundary)
    IN  IF b.raised THEN Raise ELSE ShapelyFindCountry(b.countries, query[1], query[2])
PureAnswer ==
    LET b == PureLoadCountries(boundary)
    IN  IF b.raised THEN Raise ELSE PureFindCountry(b.countries, query[1], query[2])
DegradedAnswer ==
    LET b == SimpleLoadCountries(boundary)
    IN  IF b.raised THEN Raise ELSE SimpleFindCountry(b.countries, query[1], query[2])

\* the strategy the order Precise, Pure, Degraded selects for the call
SelectedAnswer ==
    IF imports.shapely /\ ~PreciseAnswer.raised THEN PreciseAnswer
    ELSE IF imports.pure THEN PureAnswer
    ELSE DegradedAnswer

\* C25: a call of the shim is answered by the Precise strategy when its
\* dependency was imported and it does not raise, else by the Pure strategy
\* when that was imported, else by the Degraded strategy: whenever the
\* strategy so selected has an answer, it is what the shim returned.
C25_StrategySelection ==
    res["shim"].called /\ ~SelectedAnswer.raised =>
        res["shim"] = Outcome(SelectedAnswer)

\* C26: over a boundary file that is present but is not JSON, or is JSON
\* without a features list, a finder is built with an empty region set and
\* the Simple and the Pure entry point return "Unknown" without raising.
C26_LoadFailureRecovered ==
    boundary.st \in {"malformed", "nofeatures"} =>
        \A e \in {"simple", "pure"} :
            res[e].called => ~res[e].raised /\ res[e].value = UNKNOWN

(***************************************************************************)
(*                Properties of the telemetry cache (TelSpec)              *)
(***************************************************************************)

\* C27: data that fetch_balloons returns from the cache was fetched from the
\* API no more than CACHE_TTL seconds (30 minutes) before the call.
C27_CachedDataFresh ==
    fetched.called /\ ~fetched.raised /\ fetched.fromCache =>
        fetched.at - fetched.fetchedAt <= CACHE_TTL
=============================================================================
